---- MODULE Spec2Model ----
(***************************************************************************)
(* Model of scripts/madmom_beats.py: the tempo estimator                   *)
(* calculate_bpm_from_beats and the command line driver main.              *)
(*                                                                         *)
(* Time is measured in ticks of 1/10000 s, so that 0.2 s = 2000 ticks,     *)
(* 0.2001 s = 2001 ticks, 1.9999 s = 19999 ticks and 2.0 s = 20000 ticks.  *)
(* Real values that are not whole ticks (a median of an even number of     *)
(* intervals, a BPM) are exact fractions [num, den] in lowest terms with   *)
(* den > 0, so that equal values are equal records.  IEEE rounding of the  *)
(* float64 arithmetic is not modelled.                                     *)
(***************************************************************************)
EXTENDS Integers, Sequences, FiniteSets, TLC

VARIABLES pc, args, processor, activations, tracker, beats, bpm, frame,
          exc, stdout, stderr, exitCode, calls, tracked,
          input, input2, output, output2

vars == <<pc, args, processor, activations, tracker, beats, bpm, frame,
          exc, stdout, stderr, exitCode, calls, tracked,
          input, input2, output, output2>>

mainVars == <<pc, args, processor, activations, tracker, beats, bpm, frame,
              exc, stdout, stderr, exitCode, calls, tracked>>

pairVars == <<input, input2, output, output2>>

(***************************************************************************)
(* Bounds of the model.                                                    *)
(***************************************************************************)
\* largest number of inter-beat intervals in a beat sequence of a run of main
MaxIntervals == 4
\* largest number of inter-beat intervals when the estimator is called on its own
MaxEstimatorIntervals == 5
\* largest number of inter-beat intervals in the two-sequence comparison
MaxPairIntervals == 4

\* 0.2 and 2.0 of the band filter, and the 60.0 of the return, in ticks
BandLow == 2000
BandHigh == 20000
SixtySeconds == 600000

\* interval values (ticks) the beat tracker's output is built from: negative
\* (out of order), zero (duplicate), the four boundary values, two in-band
\* values and one too long
IntervalVals == {-5000, 0, 2000, 2001, 4000, 5000, 19999, 20000, 25000}
PairIntervalVals == {4000, 5000, 25000}
\* time of the first beat (ticks)
StartTime == 300

(***************************************************************************)
(* Exact fractions standing for the float values.                          *)
(***************************************************************************)
Abs(n) == IF n < 0 THEN -n ELSE n

RECURSIVE Gcd(_, _)
Gcd(a, b) == IF b = 0 THEN a ELSE Gcd(b, a % b)

Frac(n, d) ==
    LET g == Gcd(Abs(n), Abs(d))
        s == IF d < 0 THEN -1 ELSE 1
    IN [num |-> s * (n \div g), den |-> s * (d \div g)]

Zero == [num |-> 0, den |-> 1]
NaN == [num |-> 0, den |-> 0]
Whole(n) == [num |-> n, den |-> 1]

\* a < b for fractions with positive denominators
FracLess(a, b) == a.num * b.den < b.num * a.den

(***************************************************************************)
(* calculate_bpm_from_beats                                                *)
(***************************************************************************)
\* np.diff(beats): out[i] = beats[i+1] - beats[i], length n-1
np_diff(b) == [i \in 1..(Len(b) - 1) |-> b[i + 1] - b[i]]

\* the filter with ">=" for ">" at the lower end
InBand_closed_low(x) == x >= BandLow /\ x < BandHigh

\* the filter with "<=" for "<" at the upper end
InBand_closed_high(x) == x > BandLow /\ x <= BandHigh

\* (intervals > 0.2) & (intervals < 2.0)
InBand(x) == x > BandLow /\ x < BandHigh

\* intervals[mask]: the elements whose mask is true, in their order
RECURSIVE BoolIndex(_)
BoolIndex(s) ==
    IF Len(s) = 0 THEN <<>>
    ELSE IF InBand(Head(s)) THEN <<Head(s)>> \o BoolIndex(Tail(s))
    ELSE BoolIndex(Tail(s))

\* insertion of x into the sorted sequence s
RECURSIVE Insert(_, _)
Insert(x, s) ==
    IF Len(s) = 0 THEN <<x>>
    ELSE IF x <= Head(s) THEN <<x>> \o s
    ELSE <<Head(s)>> \o Insert(x, Tail(s))

RECURSIVE Sorted(_)
Sorted(s) == IF Len(s) = 0 THEN <<>> ELSE Insert(Head(s), Sorted(Tail(s)))

\* a median that takes the upper middle value of an even number of values
np_median_upper(s) ==
    LET n == Len(s)
        o == Sorted(s)
    IN IF n = 0 THEN NaN
       ELSE Whole(o[(n \div 2) + 1])

\* np.median of a 1-d array: order the values, take the middle one, or the
\* mean of the two middle ones; the median of no values is nan
np_median(s) ==
    LET n == Len(s)
        o == Sorted(s)
    IN IF n = 0 THEN NaN
       ELSE IF n % 2 = 1 THEN Whole(o[(n + 1) \div 2])
       ELSE Frac(o[n \div 2] + o[(n \div 2) + 1], 2)

\* 60.0 / median_interval, the median in ticks; numpy float64 division does
\* not raise: x / nan is nan
SixtyOver(m) ==
    IF m = NaN \/ m.num = 0 THEN NaN
    ELSE Frac(SixtySeconds * m.den, m.num)

\* the estimator with "len(beats) < 1" as its first test
calculate_bpm_short_guard(b) ==
    IF Len(b) < 1
    THEN [ret |-> Zero, line |-> 30, intervals |-> <<>>,
          valid_intervals |-> <<>>, median_interval |-> NaN]
    ELSE LET intervals == np_diff(b)
             valid_intervals == BoolIndex(intervals)
         IN IF Len(valid_intervals) = 0
            THEN [ret |-> Zero, line |-> 39, intervals |-> intervals,
                  valid_intervals |-> valid_intervals,
                  median_interval |-> NaN]
            ELSE LET median_interval == np_median(valid_intervals)
                 IN [ret |-> SixtyOver(median_interval), line |-> 44,
                     intervals |-> intervals,
                     valid_intervals |-> valid_intervals,
                     median_interval |-> median_interval]

\* the estimator without the test for an empty filtered array
calculate_bpm_no_empty_test(b) ==
    IF Len(b) < 2
    THEN [ret |-> Zero, line |-> 30, intervals |-> <<>>,
          valid_intervals |-> <<>>, median_interval |-> NaN]
    ELSE LET intervals == np_diff(b)
             valid_intervals == BoolIndex(intervals)
             median_interval == np_median(valid_intervals)
         IN [ret |-> SixtyOver(median_interval), line |-> 44,
             intervals |-> intervals,
             valid_intervals |-> valid_intervals,
             median_interval |-> median_interval]

\* the estimator taking the median of all the intervals, filtered or not
calculate_bpm_median_of_all(b) ==
    IF Len(b) < 2
    THEN [ret |-> Zero, line |-> 30, intervals |-> <<>>,
          valid_intervals |-> <<>>, median_interval |-> NaN]
    ELSE LET intervals == np_diff(b)
             valid_intervals == BoolIndex(intervals)
         IN IF Len(valid_intervals) = 0
            THEN [ret |-> Zero, line |-> 39, intervals |-> intervals,
                  valid_intervals |-> valid_intervals,
                  median_interval |-> NaN]
            ELSE LET median_interval == np_median(intervals)
                 IN [ret |-> SixtyOver(median_interval), line |-> 44,
                     intervals |-> intervals,
                     valid_intervals |-> valid_intervals,
                     median_interval |-> median_interval]

\* the call's return value, the line of the return statement that produced it
\* and the locals assigned by then (the others are left empty)
calculate_bpm_from_beats(b) ==
    IF Len(b) < 2
    THEN [ret |-> Zero, line |-> 30, intervals |-> <<>>,
          valid_intervals |-> <<>>, median_interval |-> NaN]
    ELSE LET intervals == np_diff(b)
             valid_intervals == BoolIndex(intervals)
         IN IF Len(valid_intervals) = 0
            THEN [ret |-> Zero, line |-> 39, intervals |-> intervals,
                  valid_intervals |-> valid_intervals,
                  median_interval |-> NaN]
            ELSE LET median_interval == np_median(valid_intervals)
                 IN [ret |-> SixtyOver(median_interval), line |-> 44,
                     intervals |-> intervals,
                     valid_intervals |-> valid_intervals,
                     median_interval |-> median_interval]

NoFrame == [ret |-> Zero, line |-> 0, intervals |-> <<>>,
            valid_intervals |-> <<>>, median_interval |-> NaN]

(***************************************************************************)
(* The inputs: what the external collaborators can return or raise.        *)
(***************************************************************************)
\* beat timestamps: a start time followed by the running sums of intervals
RECURSIVE Timestamps(_, _)
Timestamps(t, ivs) ==
    IF Len(ivs) = 0 THEN <<t>>
    ELSE <<t>> \o Timestamps(t + Head(ivs), Tail(ivs))

RECURSIVE SeqsUpTo(_, _)
SeqsUpTo(S, n) ==
    IF n = 0 THEN {<<>>}
    ELSE LET shorter == SeqsUpTo(S, n - 1)
         IN shorter \cup {Append(s, x) : s \in {q \in shorter : Len(q) = n - 1}, x \in S}

\* the arrays DBNBeatTrackingProcessor can return: empty, or 1 .. MaxIntervals+1 beats
BeatArrays ==
    {<<>>} \cup {Timestamps(StartTime, ivs) : ivs \in SeqsUpTo(IntervalVals, MaxIntervals)}

EstimatorBeatArrays ==
    {<<>>} \cup {Timestamps(StartTime, ivs) : ivs \in SeqsUpTo(IntervalVals, MaxEstimatorIntervals)}

PairBeatArrays ==
    {Timestamps(StartTime, ivs) : ivs \in SeqsUpTo(PairIntervalVals, MaxPairIntervals)}

\* --min-bpm / --max-bpm as parsed: the defaults, and a range wider than 30..300
ArgChoices == {[min_bpm |-> 55, max_bpm |-> 215], [min_bpm |-> 20, max_bpm |-> 400]}
NoArgs == [min_bpm |-> 0, max_bpm |-> 0]

\* exceptions a collaborator can raise: with a message, or constructed with no
\* argument
CollaboratorErrors ==
    [cls : {"ValueError", "RuntimeError"}, args : {<<>>, <<"cannot read audio">>}]
NoExc == [cls |-> "none", args |-> <<>>]
SystemExit(code) == [cls |-> "SystemExit", args |-> <<code>>]

\* the classes that derive from Exception; SystemExit derives from
\* BaseException only
ExceptionClasses == {"Exception", "ValueError", "RuntimeError"}

\* isinstance(e, Exception): what "except Exception" matches
IsException(e) == e.cls \in ExceptionClasses

\* str(e) of an exception: '' for no argument, the argument for one
ExcStr(e) == IF Len(e.args) = 0 THEN "" ELSE e.args[1]

(***************************************************************************)
(* main                                                                    *)
(***************************************************************************)
PairIdle ==
    /\ input = <<>> /\ input2 = <<>>
    /\ output = NoFrame /\ output2 = NoFrame

MainInit ==
    /\ pc = "parse_args"
    /\ args = NoArgs
    /\ processor = FALSE
    /\ activations = FALSE
    /\ tracker = FALSE
    /\ beats = <<>>
    /\ tracked = <<>>
    /\ bpm = Zero
    /\ frame = NoFrame
    /\ exc = NoExc
    /\ stdout = <<>>
    /\ stderr = <<>>
    /\ exitCode = -1
    /\ calls = [processor |-> 0, tracker |-> 0]

Init == MainInit /\ PairIdle

\* line 60: args = parser.parse_args()
ParseArgs ==
    /\ pc = "parse_args"
    /\ \E a \in ArgChoices : args' = a
    /\ pc' = "new_processor"
    /\ UNCHANGED <<processor, activations, tracker, beats, bpm, frame, exc,
                   stdout, stderr, exitCode, calls, tracked>>
    /\ UNCHANGED pairVars

\* line 60: parse_args on a bad command line prints the usage to standard
\* error and exits with status 2, before the try block
ParseArgsError ==
    /\ pc = "parse_args"
    /\ stderr' = Append(stderr, [usage |-> TRUE])
    /\ exitCode' = 2
    /\ pc' = "exited"
    /\ UNCHANGED <<args, processor, activations, tracker, beats, bpm, frame,
                   exc, stdout, calls, tracked>>
    /\ UNCHANGED pairVars

\* an exception raised inside the try block
Raise(e) ==
    /\ exc' = e
    /\ pc' = "raised"

\* line 65: processor = RNNBeatProcessor()
NewProcessor ==
    /\ pc = "new_processor"
    /\ processor' = TRUE
    /\ pc' = "call_processor"
    /\ UNCHANGED <<args, activations, tracker, beats, bpm, frame, exc,
                   stdout, stderr, exitCode, calls, tracked>>
    /\ UNCHANGED pairVars

NewProcessorRaises ==
    /\ pc = "new_processor"
    /\ \E e \in CollaboratorErrors : Raise(e)
    /\ UNCHANGED <<args, processor, activations, tracker, beats, bpm, frame,
                   stdout, stderr, exitCode, calls, tracked>>
    /\ UNCHANGED pairVars

\* line 66: activations = processor(args.wav_path)
CallProcessor ==
    /\ pc = "call_processor"
    /\ calls' = [calls EXCEPT !.processor = @ + 1]
    /\ activations' = TRUE
    /\ pc' = "new_tracker"
    /\ UNCHANGED <<args, processor, tracker, beats, bpm, frame, exc,
                   stdout, stderr, exitCode, tracked>>
    /\ UNCHANGED pairVars

CallProcessorRaises ==
    /\ pc = "call_processor"
    /\ calls' = [calls EXCEPT !.processor = @ + 1]
    /\ \E e \in CollaboratorErrors : Raise(e)
    /\ UNCHANGED <<args, processor, activations, tracker, beats, bpm, frame,
                   stdout, stderr, exitCode, tracked>>
    /\ UNCHANGED pairVars

\* lines 70-74: tracker = DBNBeatTrackingProcessor(fps=100, min_bpm, max_bpm)
NewTracker ==
    /\ pc = "new_tracker"
    /\ tracker' = TRUE
    /\ pc' = "call_tracker"
    /\ UNCHANGED <<args, processor, activations, beats, bpm, frame, exc,
                   stdout, stderr, exitCode, calls, tracked>>
    /\ UNCHANGED pairVars

NewTrackerRaises ==
    /\ pc = "new_tracker"
    /\ \E e \in CollaboratorErrors : Raise(e)
    /\ UNCHANGED <<args, processor, activations, tracker, beats, bpm, frame,
                   stdout, stderr, exitCode, calls, tracked>>
    /\ UNCHANGED pairVars

\* line 75: beats = tracker(activations)
CallTracker ==
    /\ pc = "call_tracker"
    /\ calls' = [calls EXCEPT !.tracker = @ + 1]
    /\ \E b \in BeatArrays : beats' = b /\ tracked' = b
    /\ pc' = "calculate_bpm"
    /\ UNCHANGED <<args, processor, activations, tracker, bpm, frame, exc,
                   stdout, stderr, exitCode>>
    /\ UNCHANGED pairVars

CallTrackerRaises ==
    /\ pc = "call_tracker"
    /\ calls' = [calls EXCEPT !.tracker = @ + 1]
    /\ \E e \in CollaboratorErrors : Raise(e)
    /\ UNCHANGED <<args, processor, activations, tracker, beats, bpm, frame,
                   stdout, stderr, exitCode, tracked>>
    /\ UNCHANGED pairVars

\* line 78: bpm = calculate_bpm_from_beats(beats)
CalculateBpm ==
    /\ pc = "calculate_bpm"
    /\ frame' = calculate_bpm_from_beats(beats)
    /\ bpm' = frame'.ret
    /\ pc' = "print_result"
    /\ UNCHANGED <<args, processor, activations, tracker, beats, exc,
                   stdout, stderr, exitCode, calls, tracked>>
    /\ UNCHANGED pairVars

\* beats.tolist(): the elements of the array, in order, as a list
tolist(b) == [i \in 1..Len(b) |-> b[i]]

\* a result dictionary that puts the beats in increasing order
Result_sorted(b, t) == [beats |-> Sorted(tolist(b)), bpm |-> t, confidence |-> 85]

\* lines 81-87: the result dictionary
Result(b, t) == [beats |-> tolist(b), bpm |-> t, confidence |-> 85]

\* lines 94-99: the error dictionary
ErrorResult(e) == [error |-> ExcStr(e), beats |-> <<>>, bpm |-> Zero, confidence |-> 0]

\* lines 81-89: print(json.dumps(result))
PrintResult ==
    /\ pc = "print_result"
    /\ stdout' = Append(stdout, Result(beats, bpm))
    /\ pc' = "sys_exit_0"
    /\ UNCHANGED <<args, processor, activations, tracker, beats, bpm, frame,
                   exc, stderr, exitCode, calls, tracked>>
    /\ UNCHANGED pairVars

\* line 90: sys.exit(0) raises SystemExit(0) inside the try block
SysExit0 ==
    /\ pc = "sys_exit_0"
    /\ Raise(SystemExit(0))
    /\ UNCHANGED <<args, processor, activations, tracker, beats, bpm, frame,
                   stdout, stderr, exitCode, calls, tracked>>
    /\ UNCHANGED pairVars

\* a handler that matches every exception, SystemExit included
Handles_all(e) == TRUE

\* line 92: "except Exception as e" matches the raised exception
Handles(e) == IsException(e)

Except ==
    /\ pc = "raised"
    /\ Handles(exc)
    /\ pc' = "print_error"
    /\ UNCHANGED <<args, processor, activations, tracker, beats, bpm, frame,
                   exc, stdout, stderr, exitCode, calls, tracked>>
    /\ UNCHANGED pairVars

\* line 92: the exception is not matched and leaves main; the interpreter ends
\* the process with the SystemExit's code
Propagate ==
    /\ pc = "raised"
    /\ ~Handles(exc)
    /\ exitCode' = exc.args[1]
    /\ pc' = "exited"
    /\ UNCHANGED <<args, processor, activations, tracker, beats, bpm, frame,
                   exc, stdout, stderr, calls, tracked>>
    /\ UNCHANGED pairVars

\* the error record printed to standard output
PrintError_stdout ==
    /\ pc = "print_error"
    /\ stdout' = Append(stdout, ErrorResult(exc))
    /\ pc' = "sys_exit_1"
    /\ UNCHANGED <<args, processor, activations, tracker, beats, bpm, frame,
                   exc, stderr, exitCode, calls, tracked>>
    /\ UNCHANGED pairVars

\* lines 94-100: print(json.dumps(error_result), file=sys.stderr)
PrintError ==
    /\ pc = "print_error"
    /\ stderr' = Append(stderr, ErrorResult(exc))
    /\ pc' = "sys_exit_1"
    /\ UNCHANGED <<args, processor, activations, tracker, beats, bpm, frame,
                   exc, stdout, exitCode, calls, tracked>>
    /\ UNCHANGED pairVars

\* line 101: sys.exit(1) in the handler; nothing encloses it
SysExit1 ==
    /\ pc = "sys_exit_1"
    /\ exitCode' = 1
    /\ pc' = "exited"
    /\ UNCHANGED <<args, processor, activations, tracker, beats, bpm, frame,
                   exc, stdout, stderr, calls, tracked>>
    /\ UNCHANGED pairVars

Next ==
    \/ ParseArgs
    \/ ParseArgsError
    \/ NewProcessor
    \/ NewProcessorRaises
    \/ CallProcessor
    \/ CallProcessorRaises
    \/ NewTracker
    \/ NewTrackerRaises
    \/ CallTracker
    \/ CallTrackerRaises
    \/ CalculateBpm
    \/ PrintResult
    \/ SysExit0
    \/ Except
    \/ Propagate
    \/ PrintError
    \/ SysExit1

Spec == Init /\ [][Next]_vars

(***************************************************************************)
(* calculate_bpm_from_beats on its own: the input is any beat array, the   *)
(* one step is the call.                                                   *)
(***************************************************************************)
InitEstimator ==
    /\ MainInit
    /\ input \in EstimatorBeatArrays
    /\ input2 = <<>>
    /\ output = NoFrame
    /\ output2 = NoFrame

\* output = calculate_bpm_from_beats(input)
Estimate ==
    /\ output.line = 0
    /\ output' = calculate_bpm_from_beats(input)
    /\ UNCHANGED <<input, input2, output2>>
    /\ UNCHANGED mainVars

NextEstimator == Estimate

SpecEstimator == InitEstimator /\ [][NextEstimator]_vars

(***************************************************************************)
(* calculate_bpm_from_beats called on two beat arrays, one after the other *)
(***************************************************************************)
InitPair ==
    /\ MainInit
    /\ input \in PairBeatArrays
    /\ input2 \in PairBeatArrays
    /\ output = NoFrame
    /\ output2 = NoFrame

\* output2 = calculate_bpm_from_beats(input2)
Estimate2 ==
    /\ output.line # 0
    /\ output2.line = 0
    /\ output2' = calculate_bpm_from_beats(input2)
    /\ UNCHANGED <<input, input2, output>>
    /\ UNCHANGED mainVars

NextPair ==
    \/ Estimate
    \/ Estimate2

SpecPair == InitPair /\ [][NextPair]_vars

(***************************************************************************)
(* Vocabulary of the properties, stated on the timestamps themselves.      *)
(***************************************************************************)
Gap(b, i) == b[i + 1] - b[i]

\* positions of the intervals strictly between 0.2 s and 2.0 s
Retained(b) == {i \in 1..(Len(b) - 1) : Gap(b, i) > 2000 /\ Gap(b, i) < 20000}

\* the k-th smallest retained interval, counting repetitions
Ranked(b, k) ==
    CHOOSE v \in {Gap(b, i) : i \in Retained(b)} :
        /\ Cardinality({i \in Retained(b) : Gap(b, i) < v}) < k
        /\ k <= Cardinality({i \in Retained(b) : Gap(b, i) <= v})

\* twice the median of the retained intervals
TwiceMedian(b) ==
    LET n == Cardinality(Retained(b))
    IN IF n % 2 = 1 THEN 2 * Ranked(b, (n + 1) \div 2)
       ELSE Ranked(b, n \div 2) + Ranked(b, (n \div 2) + 1)

\* number of retained intervals of b equal to v
Multiplicity(b, v) == Cardinality({i \in Retained(b) : Gap(b, i) = v})

SameRetained(a, b) ==
    \A v \in {Gap(a, i) : i \in Retained(a)} \cup {Gap(b, i) : i \in Retained(b)} :
        Multiplicity(a, v) = Multiplicity(b, v)

Estimated == output.line # 0

\* C1: with at least two timestamps and at least one interval strictly inside
\* (0.2 s, 2.0 s), the estimator returns 60 divided by the median of the
\* retained intervals: the middle one in sorted order for an odd count, the
\* mean of the two middle ones for an even count.
C1_BpmIsSixtyOverMedian ==
    (Estimated /\ Len(input) >= 2 /\ Retained(input) # {})
        => output.ret = Frac(1200000, TwiceMedian(input))

\* six timestamps 0.5 s apart give 120.0
C1_Witness ==
    /\ Estimated
    /\ output.intervals = <<5000, 5000, 5000, 5000, 5000>>
    /\ output.ret = Whole(120)

\* C2: for zero or one timestamp the estimator returns 0.0 from its first
\* return statement, before any interval is computed.
C2_TooFewBeatsGiveZero ==
    (Estimated /\ Len(input) < 2)
        => /\ output.ret = Zero
           /\ output.line = 30
           /\ output.intervals = <<>>

C2_Witness ==
    /\ Estimated
    /\ Len(input) = 1
    /\ output.ret = Zero

\* C3: with at least two timestamps and every interval outside (0.2 s, 2.0 s),
\* zero and negative intervals included, the estimator returns 0.0 (not nan,
\* not a quotient by zero).
C3_NoRetainedIntervalGivesZero ==
    (Estimated /\ Len(input) >= 2 /\ Retained(input) = {})
        => output.ret = Zero /\ output.line = 39

\* a duplicate timestamp, an out-of-order one and a gap of 2.5 s
C3_Witness ==
    /\ Estimated
    /\ output.intervals = <<0, -5000, 25000>>
    /\ output.ret = Zero

C5_SameRetainedSameBpm ==
    (output.line # 0 /\ output2.line # 0 /\ SameRetained(input, input2))
        => output.ret = output2.ret

\* intervals 0.5, 0.5, 2.5, 0.5 against 0.5, 0.5, 0.5: both 120.0
C5_Witness ==
    /\ output.intervals = <<5000, 5000, 25000, 5000>>
    /\ output2.intervals = <<5000, 5000, 5000>>
    /\ output.ret = Whole(120)
    /\ output2.ret = Whole(120)

CollaboratorRaised == exc.cls \in {"ValueError", "RuntimeError"}

IsErrorRecord(r) ==
    /\ DOMAIN r = {"error", "beats", "bpm", "confidence"}
    /\ r.beats = <<>>
    /\ r.bpm = Zero
    /\ r.confidence = 0

IsSuccessRecord(r) == DOMAIN r = {"beats", "bpm", "confidence"}

\* C6: after a collaborator raised, nothing is ever written to standard
\* output and no collaborator is called again; the run ends with exit code 1
\* and exactly one record on standard error, the failure record.
C6_FailureReportedOnce ==
    CollaboratorRaised =>
        /\ stdout = <<>>
        /\ calls.processor <= 1 /\ calls.tracker <= 1
        /\ exitCode \in {-1, 1}
        /\ pc = "exited" =>
              /\ exitCode = 1
              /\ Len(stderr) = 1
              /\ IsErrorRecord(stderr[1])

C6_Witness ==
    /\ pc = "exited"
    /\ CollaboratorRaised
    /\ calls.tracker = 1
    /\ Len(stderr) = 1

\* C7: a run in which no collaborator raised ends with exit code 0, nothing on
\* standard error, and one record on standard output: the tracker's beats
\* unchanged, the estimator's value for them, and confidence 0.85.
C7_SuccessRecord ==
    (pc = "exited" /\ calls.tracker = 1 /\ ~CollaboratorRaised) =>
        /\ exitCode = 0
        /\ stderr = <<>>
        /\ Len(stdout) = 1
        /\ DOMAIN stdout[1] = {"beats", "bpm", "confidence"}
        /\ stdout[1].beats = tracked
        /\ stdout[1].bpm = calculate_bpm_from_beats(tracked).ret
        /\ stdout[1].confidence = 85

\* out-of-order beats are written as they came
C7_Witness ==
    /\ pc = "exited"
    /\ exitCode = 0
    /\ Len(tracked) = 4
    /\ tracked[2] > tracked[3]
    /\ stdout[1].bpm = Whole(120)

OutcomeSuccess ==
    /\ exitCode = 0
    /\ Len(stdout) = 1 /\ IsSuccessRecord(stdout[1])
    /\ stderr = <<>>

OutcomeFailure ==
    /\ exitCode = 1
    /\ Len(stderr) = 1 /\ IsErrorRecord(stderr[1])
    /\ stdout = <<>>

\* C8: a run past argument parsing ends either with exit code 0 and a success
\* record on standard output, or with exit code 1 and an error record on
\* standard error, never both, never neither; an inconclusive tempo ends the
\* first way with bpm 0.0; the SystemExit of sys.exit(0) is not handled.
C8_OutcomesDisjoint ==
    /\ (pc = "exited" /\ exitCode # 2) =>
          /\ OutcomeSuccess \/ OutcomeFailure
          /\ ~(OutcomeSuccess /\ OutcomeFailure)
          /\ frame.line \in {30, 39} => (OutcomeSuccess /\ stdout[1].bpm = Zero)
    /\ pc \in {"print_error", "sys_exit_1"} => exc.cls # "SystemExit"
    /\ (stdout # <<>> /\ stderr # <<>>) => exitCode = 2

\* all intervals out of band: exit 0 with bpm 0.0
C8_Witness ==
    /\ pc = "exited"
    /\ frame.line = 39
    /\ OutcomeSuccess
    /\ exc.cls = "SystemExit"

\* C9: the error field of every failure record is a non-empty message.
C9_ErrorMessageNonEmpty ==
    \A i \in 1..Len(stderr) :
        "error" \in DOMAIN stderr[i] => stderr[i].error # ""

\* C10: the BPM computed in main is 0.0 or strictly between 30 and 300,
\* whatever --min-bpm and --max-bpm are.
C10_BpmRange ==
    frame.line # 0 =>
        \/ bpm = Zero
        \/ /\ bpm.den > 0
           /\ 30 * bpm.den < bpm.num
           /\ bpm.num < 300 * bpm.den

\* a search range of 20..400 and beats 0.2001 s apart: just under 300
C10_Witness ==
    /\ frame.line = 44
    /\ args.min_bpm = 20 /\ args.max_bpm = 400
    /\ bpm = Frac(600000, 2001)

====
